---- MODULE Spec2Model ----
(***************************************************************************)
(* A model of my-axum-starter: the layered configuration loader            *)
(* (core/config.rs), the CORS section (core/config/cors.rs, core/cors.rs), *)
(* the response envelope (core/response.rs) and the startup sequence of    *)
(* main (main.rs).                                                         *)
(***************************************************************************)
EXTENDS Integers, Sequences, FiniteSets, TLC

VARIABLES
    file,        \* config.toml as the loader finds it: absent, malformed, or a document
    env,         \* the process environment: variable name -> set/unset raw string
    dotenv,      \* the variables a .env file in the working directory offers
    loadResult,  \* what AppConfig::load returned: [ok: {config}, err: {error}]
    corsCfg,     \* a CorsConfig section
    corsResult,  \* what validate() returned on corsCfg since its last change
    call,        \* the last ApiResponse constructor call and its arguments
    resp,        \* the ApiResponse that call built
    now,         \* the clock chrono::Utc::now() reads
    pc,          \* where main is
    loads,       \* how many times main has called AppConfig::load
    docs,        \* whether the /docs routes were nested into the router
    corsLayer,   \* what build_cors_layer returned
    bound,       \* whether the listener is bound
    inflight,    \* requests accepted and not yet answered
    served,      \* requests answered
    exit,        \* what main returned: Ok(()) or Err(AppError)
    tcfg,        \* an AppConfig about to be written in the file format
    tdoc,        \* what serializing tcfg gave: the document, or an error
    tback,       \* what parsing tdoc back gave: an AppConfig, or an error
    pool,        \* the pool options AppState::init connected with
    corsPrior,   \* a CorsConfig section before load_from_value ran on it
    corsValue,   \* the value load_from_value was given
    corsLoaded,  \* what load_from_value returned
    layerResult, \* what build_cors_layer returned on corsCfg
    herr,        \* an AppError a request handler returned
    hresp,       \* the response into_response made of herr
    reqs,        \* the requests of a run: where each is and what it carries
    nextId,      \* the ids Uuid::new_v4 has handed out so far
    serving      \* whether the service is still answering requests

loadVars == <<file, env, dotenv, loadResult>>
corsVars == <<corsCfg, corsResult>>
respVars == <<call, resp, now>>
mainVars == <<pc, loads, docs, corsLayer, bound, inflight, served, exit, pool>>
tomlVars == <<tcfg, tdoc, tback>>
sectionVars == <<corsPrior, corsValue, corsLoaded, layerResult>>
errVars == <<herr, hresp>>
reqVars == <<reqs, nextId, serving>>
vars == <<loadVars, corsVars, respVars, mainVars, tomlVars, sectionVars, errVars, reqVars>>

(***************************************************************************)
(* Bounds of the model.                                                    *)
(***************************************************************************)
MaxFileKeys == 1    \* keys present in config.toml
MaxAppVars == 1     \* APP_-prefixed variables set in the environment
MaxListLen == 2     \* length of an allow-list of a CorsConfig under validation
MaxClock == 2       \* readings of the clock
MaxRequests == 2    \* requests the server accepts in a run
MaxInflight == 2    \* requests that pass through the middleware stack in a run

(***************************************************************************)
(* Values.  A figment value is a string or an integer; both fields are     *)
(* always present so that values of different kinds stay comparable.       *)
(***************************************************************************)
StrVal(s) == [k |-> "str", s |-> s, n |-> 0]
IntVal(n) == [k |-> "int", s |-> "", n |-> n]

\* Option<String>
None == [some |-> FALSE, v |-> ""]
Some(s) == [some |-> TRUE, v |-> s]

\* Result<T, E>: exactly one of the two sets holds one element.
Ok(x) == [ok |-> {x}, err |-> {}]
Err(e) == [ok |-> {}, err |-> {e}]
NotRun == [ok |-> {}, err |-> {}]
IsOk(r) == r.ok # {}
IsErr(r) == r.err # {}
OkVal(r) == CHOOSE x \in r.ok : TRUE
ErrVal(r) == CHOOSE e \in r.err : TRUE

(***************************************************************************)
(* CORS section (core/config/cors.rs).                                     *)
(***************************************************************************)
DefaultMaxAge == 3600

\* impl Default for CorsConfig
CorsDefault ==
    [ allow_origins     |-> <<"*">>,
      allow_methods     |-> <<"GET", "POST", "PUT", "DELETE", "OPTIONS", "HEAD">>,
      allow_headers     |-> <<"Authorization", "Content-Type", "Accept", "X-Request-ID">>,
      allow_credentials |-> FALSE,
      expose_headers    |-> <<"Content-Type", "X-Total-Count">>,
      max_age           |-> DefaultMaxAge ]

\* Vec::contains and Vec::is_empty
Contains(v, x) == \E i \in 1..Len(v) : v[i] = x
IsEmpty(v) == Len(v) = 0

\* The messages of the three empty-list errors.  The source writes them in
\* Chinese; each is given here by its meaning.
ErrOriginsEmpty == "CORS allow_origins list must not be empty"
ErrMethodsEmpty == "CORS allow_methods list must not be empty"
ErrHeadersEmpty == "CORS allow_headers list must not be empty"
\* (the source's message puts the two header phrases in backquotes)
ErrCredentialsWildcard ==
    "Invalid CORS configuration: Cannot combine Access-Control-Allow-Credentials: true with Access-Control-Allow-Methods: *"

\* A validate() that forgets the credentials rule.
CorsValidateNoCredentialRule(c) ==
    IF IsEmpty(c.allow_origins) THEN Err(ErrOriginsEmpty)
    ELSE IF IsEmpty(c.allow_methods) THEN Err(ErrMethodsEmpty)
    ELSE IF IsEmpty(c.allow_headers) THEN Err(ErrHeadersEmpty)
    ELSE Ok("unit")

\* A validate() that forgets the allow_headers check.
CorsValidateNoHeaderCheck(c) ==
    IF IsEmpty(c.allow_origins) THEN Err(ErrOriginsEmpty)
    ELSE IF IsEmpty(c.allow_methods) THEN Err(ErrMethodsEmpty)
    ELSE IF c.allow_credentials /\ Contains(c.allow_methods, "*")
         THEN Err(ErrCredentialsWildcard)
    ELSE Ok("unit")

\* ConfigSection::validate for CorsConfig
CorsValidate(c) ==
    IF IsEmpty(c.allow_origins) THEN Err(ErrOriginsEmpty)
    ELSE IF IsEmpty(c.allow_methods) THEN Err(ErrMethodsEmpty)
    ELSE IF IsEmpty(c.allow_headers) THEN Err(ErrHeadersEmpty)
    ELSE IF c.allow_credentials /\ Contains(c.allow_methods, "*")
         THEN Err(ErrCredentialsWildcard)
    ELSE Ok("unit")

(***************************************************************************)
(* serde_json::Value as load_from_value reads it.  A scalar is null, a     *)
(* bool, a number or a string; the value under a key of an object is a     *)
(* scalar, an array of scalars, a nested object, or absent.                *)
(***************************************************************************)
JNull == [k |-> "null", b |-> FALSE, n |-> 0, s |-> ""]
JBool(b) == [k |-> "bool", b |-> b, n |-> 0, s |-> ""]
JNum(n) == [k |-> "num", b |-> FALSE, n |-> n, s |-> ""]
JStr(s) == [k |-> "str", b |-> FALSE, n |-> 0, s |-> s]

JAbsent == [k |-> "absent", b |-> FALSE, n |-> 0, s |-> "", a |-> <<>>]
JScalarField(x) == [k |-> x.k, b |-> x.b, n |-> x.n, s |-> x.s, a |-> <<>>]
JArr(a) == [k |-> "arr", b |-> FALSE, n |-> 0, s |-> "", a |-> a]
JObjField == [k |-> "obj", b |-> FALSE, n |-> 0, s |-> "", a |-> <<>>]

CorsKeys ==
    {"allow_origins", "allow_methods", "allow_headers", "allow_credentials",
     "expose_headers", "max_age"}

\* An object with none of the keys the section reads.
JEmptyObj == [key \in CorsKeys |-> JAbsent]
JObject(o) == [k |-> "obj", o |-> o]
JNotObject(kind) == [k |-> kind, o |-> JEmptyObj]

\* .iter().filter_map(|v| v.as_str().map(|s| s.to_string())).collect()
RECURSIVE StrItems(_)
StrItems(a) ==
    IF a = <<>> THEN <<>>
    ELSE IF Head(a).k = "str" THEN <<Head(a).s>> \o StrItems(Tail(a))
    ELSE StrItems(Tail(a))

\* A merge that empties the list when the key has the wrong type.
MergeListClearing(prior, f) ==
    IF f.k = "arr" THEN StrItems(f.a) ELSE IF f.k = "absent" THEN prior ELSE <<>>

\* obj.get(key).and_then(|v| v.as_array()) followed by the assignment
MergeList(prior, f) == IF f.k = "arr" THEN StrItems(f.a) ELSE prior
\* obj.get(key).and_then(|v| v.as_bool())
MergeBool(prior, f) == IF f.k = "bool" THEN f.b ELSE prior
\* obj.get(key).and_then(|v| v.as_u64())
MergeU64(prior, f) == IF f.k = "num" /\ f.n >= 0 THEN f.n ELSE prior

\* ConfigSection::load_from_value for CorsConfig (always Ok(())); the value
\* returned here is the section after the call.
CorsLoadFromValue(self, value) ==
    IF value.k = "obj"
    THEN [ allow_origins     |-> MergeList(self.allow_origins, value.o["allow_origins"]),
           allow_methods     |-> MergeList(self.allow_methods, value.o["allow_methods"]),
           allow_headers     |-> MergeList(self.allow_headers, value.o["allow_headers"]),
           allow_credentials |-> MergeBool(self.allow_credentials, value.o["allow_credentials"]),
           expose_headers    |-> MergeList(self.expose_headers, value.o["expose_headers"]),
           max_age           |-> MergeU64(self.max_age, value.o["max_age"]) ]
    ELSE self

(***************************************************************************)
(* Environment.  A variable name is its sequence of words and separators,  *)
(* so that figment's mapping from a name to a key path is computed from    *)
(* the name.  A variable is unset, or set to a raw string.                 *)
(***************************************************************************)
Unset == [set |-> FALSE, v |-> ""]
SetTo(s) == [set |-> TRUE, v |-> s]

DATABASE_URL == <<"DATABASE", "_", "URL">>
JWT_SECRET == <<"JWT", "_", "SECRET">>
REDIS_URL == <<"REDIS", "_", "URL">>
SecretNames == {DATABASE_URL, JWT_SECRET, REDIS_URL}

\* APP_<SECTION>.<FIELD>: the names figment maps to a field of a section.
AppDotted(section, field) == <<"APP", "_", section, ".">> \o field
\* APP_<SECTION>_<FIELD>: one flat key, no nesting.
AppFlat(section, field) == <<"APP", "_", section, "_">> \o field

AppNames ==
    { AppDotted("SERVER", <<"HOST">>), AppDotted("SERVER", <<"PORT">>),
      AppDotted("SERVER", <<"TIMEOUT">>),
      AppDotted("DATABASE", <<"URL">>),
      AppDotted("DATABASE", <<"MAX", "_", "CONNECTIONS">>),
      AppDotted("DATABASE", <<"POOL", "_", "TIMEOUT">>),
      AppDotted("LOGGING", <<"LEVEL">>), AppDotted("LOGGING", <<"FORMAT">>),
      AppDotted("SECRETS", <<"JWT", "_", "SECRET">>),
      AppDotted("SECRETS", <<"REDIS", "_", "URL">>),
      AppFlat("DATABASE", <<"URL">>) }

EnvNames == SecretNames \cup AppNames

\* str::to_lowercase on the words of a name
Lower(w) ==
    CASE w = "SERVER" -> "server"     [] w = "DATABASE" -> "database"
      [] w = "LOGGING" -> "logging"   [] w = "SECRETS" -> "secrets"
      [] w = "HOST" -> "host"         [] w = "PORT" -> "port"
      [] w = "TIMEOUT" -> "timeout"   [] w = "URL" -> "url"
      [] w = "MAX" -> "max"           [] w = "CONNECTIONS" -> "connections"
      [] w = "POOL" -> "pool"         [] w = "LEVEL" -> "level"
      [] w = "FORMAT" -> "format"     [] w = "JWT" -> "jwt"
      [] w = "SECRET" -> "secret"     [] w = "REDIS" -> "redis"
      [] OTHER -> w

\* Env::prefixed("APP_"): only names that start with the prefix are read.
HasAppPrefix(name) == Len(name) > 2 /\ name[1] = "APP" /\ name[2] = "_"

\* The key path of a name: the prefix stripped, lowercased, split at "."
\* (and at nothing else: there is no .split("_") on the provider).
RECURSIVE SplitAtDots(_, _)
SplitAtDots(words, cur) ==
    IF words = <<>> THEN <<cur>>
    ELSE IF Head(words) = "." THEN <<cur>> \o SplitAtDots(Tail(words), <<>>)
    ELSE SplitAtDots(Tail(words), Append(cur, Lower(Head(words))))

EnvKeyPath(name) == SplitAtDots(SubSeq(name, 3, Len(name)), <<>>)

\* The key paths of the fields of AppConfig (struct and field names).
P_host == <<<<"server">>, <<"host">>>>
P_port == <<<<"server">>, <<"port">>>>
P_timeout == <<<<"server">>, <<"timeout">>>>
P_url == <<<<"database">>, <<"url">>>>
P_max_connections == <<<<"database">>, <<"max", "_", "connections">>>>
P_pool_timeout == <<<<"database">>, <<"pool", "_", "timeout">>>>
P_level == <<<<"logging">>, <<"level">>>>
P_format == <<<<"logging">>, <<"format">>>>
P_jwt_secret == <<<<"secrets">>, <<"jwt", "_", "secret">>>>
P_redis_url == <<<<"secrets">>, <<"redis", "_", "url">>>>

StrPaths == {P_host, P_url, P_level, P_format, P_jwt_secret, P_redis_url}
IntPaths == {P_port, P_timeout, P_max_connections, P_pool_timeout}
FieldPaths == StrPaths \cup IntPaths

\* figment parses the raw text of a variable: a numeral becomes a number,
\* anything else stays a string.
Numerals == {"9090", "45"}
NumeralValue(s) ==
    CASE s = "9090" -> 9090 [] s = "45" -> 45 [] OTHER -> 0
EnvParse(raw) == IF raw \in Numerals THEN IntVal(NumeralValue(raw)) ELSE StrVal(raw)

(***************************************************************************)
(* AppConfig and its defaults (core/config.rs).                            *)
(***************************************************************************)
DefaultPort == 3000
DefaultTimeout == 30
DefaultMaxConnections == 10
DefaultPoolTimeout == 30
U16Max == 65535

\* impl Default for ServerConfig / DatabaseConfig / LoggingConfig / SecretsConfig
ServerDefault == [host |-> "127.0.0.1", port |-> DefaultPort, timeout |-> DefaultTimeout]
DatabaseDefault ==
    [url |-> "", max_connections |-> DefaultMaxConnections, pool_timeout |-> DefaultPoolTimeout]
LoggingDefault == [level |-> "info", format |-> "pretty"]
SecretsDefault == [jwt_secret |-> "", redis_url |-> None]

\* EnvConfigError
MissingVar(name) == [kind |-> "MissingVar", var_name |-> name, msg |-> ""]
FigmentError == [kind |-> "Figment", var_name |-> "", msg |-> ""]
InvalidConfig(msg) == [kind |-> "InvalidConfig", var_name |-> "", msg |-> msg]

(***************************************************************************)
(* config.toml.  state is "absent" (Toml::file tolerates a missing file),  *)
(* "malformed" (a parse error), or "ok" with the keys of the document:     *)
(* entries under the sections of AppConfig, and the value of the cors key. *)
(***************************************************************************)
NoFile == [state |-> "absent", entries |-> {}, cors |-> JNotObject("absent")]
BadFile == [state |-> "malformed", entries |-> {}, cors |-> JNotObject("absent")]
Document(entries, cors) == [state |-> "ok", entries |-> entries, cors |-> cors]

\* dotenvy::dotenv().ok(): a variable of .env is set unless the process
\* already has it; a missing .env offers nothing.
Dotenv(e, d) == [n \in EnvNames |-> IF e[n].set THEN e[n] ELSE d[n]]

\* Toml::file("config.toml") as figment data: (key path, value) pairs.
TomlData(f) == IF f.state = "ok" THEN f.entries ELSE {}

\* Env::prefixed("APP_") as figment data.
EnvData(e) ==
    { [path |-> EnvKeyPath(n), val |-> EnvParse(e[n].v)] :
        n \in {m \in EnvNames : HasAppPrefix(m) /\ e[m].set} }

\* A merge the wrong way round: on a conflict the earlier provider wins.
MergeEarlierWins(earlier, later) ==
    earlier \cup {x \in later : ~ \E y \in earlier : y.path = x.path}

\* Figment::merge: on a conflict the later provider replaces the earlier.
Merge(earlier, later) ==
    later \cup {x \in earlier : ~ \E y \in later : y.path = x.path}

Supplies(data, path) == \E x \in data : x.path = path
ValueAt(data, path) == (CHOOSE x \in data : x.path = path).val

\* Deserialize of one field: a value of the wrong type, or an integer out
\* of the field's range, is an error.  (u32 and u64 exceed the integers of
\* the checker; only their lower end is checked.)
FieldOk(data, path) ==
    IF ~ Supplies(data, path) THEN TRUE
    ELSE LET v == ValueAt(data, path) IN
         IF path \in StrPaths THEN v.k = "str"
         ELSE /\ v.k = "int"
              /\ v.n >= 0
              /\ (path = P_port => v.n <= U16Max)

\* #[serde(default)]: a field no provider supplies keeps its default.
StrField(data, path, default) ==
    IF Supplies(data, path) THEN ValueAt(data, path).s ELSE default
IntField(data, path, default) ==
    IF Supplies(data, path) THEN ValueAt(data, path).n ELSE default
OptField(data, path) ==
    IF Supplies(data, path) THEN Some(ValueAt(data, path).s) ELSE None

\* The cors section of the configuration main reads (config.cors): the
\* section's defaults with the cors key of the file merged into them.
SectionCors(f) ==
    IF f.state = "ok" THEN CorsLoadFromValue(CorsDefault, f.cors) ELSE CorsDefault

\* figment.extract(): Toml::file("config.toml") merged with
\* Env::prefixed("APP_"), deserialized into AppConfig.
Extract(f, e) ==
    IF f.state = "malformed" THEN Err(FigmentError)
    ELSE LET data == Merge(TomlData(f), EnvData(e)) IN
         IF \E p \in FieldPaths : ~ FieldOk(data, p) THEN Err(FigmentError)
         ELSE Ok([ server   |-> [ host    |-> StrField(data, P_host, ServerDefault.host),
                                  port    |-> IntField(data, P_port, ServerDefault.port),
                                  timeout |-> IntField(data, P_timeout, ServerDefault.timeout) ],
                   database |-> [ url |-> StrField(data, P_url, DatabaseDefault.url),
                                  max_connections |->
                                      IntField(data, P_max_connections,
                                               DatabaseDefault.max_connections),
                                  pool_timeout |->
                                      IntField(data, P_pool_timeout,
                                               DatabaseDefault.pool_timeout) ],
                   logging  |-> [ level  |-> StrField(data, P_level, LoggingDefault.level),
                                  format |-> StrField(data, P_format, LoggingDefault.format) ],
                   secrets  |-> [ jwt_secret |->
                                      StrField(data, P_jwt_secret, SecretsDefault.jwt_secret),
                                  redis_url  |-> OptField(data, P_redis_url) ],
                   cors     |-> SectionCors(f) ])

\* Overrides that never touch the extracted configuration.
SecretOverridesSkipped(c, e) == c

\* The three std::env::var overrides.
SecretOverrides(c, e) ==
    [c EXCEPT
        !.database.url = IF e[DATABASE_URL].set THEN e[DATABASE_URL].v ELSE @,
        !.secrets.jwt_secret = IF e[JWT_SECRET].set THEN e[JWT_SECRET].v ELSE @,
        !.secrets.redis_url = IF e[REDIS_URL].set THEN Some(e[REDIS_URL].v) ELSE @]

\* Required checks in the other order.
RequiredChecksJwtFirst(c) ==
    IF c.secrets.jwt_secret = "" THEN Err(MissingVar("JWT_SECRET"))
    ELSE IF c.database.url = "" THEN Err(MissingVar("DATABASE_URL"))
    ELSE Ok(c)

\* Required checks that let an empty signing secret through.
RequiredChecksNoJwt(c) ==
    IF c.database.url = "" THEN Err(MissingVar("DATABASE_URL")) ELSE Ok(c)

\* The two required-field checks, in the order of the code.
RequiredChecks(c) ==
    IF c.database.url = "" THEN Err(MissingVar("DATABASE_URL"))
    ELSE IF c.secrets.jwt_secret = "" THEN Err(MissingVar("JWT_SECRET"))
    ELSE Ok(c)

\* AppConfig::load, given the file and the environment dotenv left.
Load(f, e) ==
    LET ex == Extract(f, e) IN
    IF IsErr(ex) THEN ex
    ELSE RequiredChecks(SecretOverrides(OkVal(ex), e))

(***************************************************************************)
(* Inputs of the loader.                                                   *)
(***************************************************************************)
Functional(es) == \A x, y \in es : x.path = y.path => x = y

FileCandidates ==
    { [path |-> P_host, val |-> StrVal("0.0.0.0")],
      [path |-> P_port, val |-> IntVal(8080)],
      [path |-> P_port, val |-> IntVal(70000)],
      [path |-> P_timeout, val |-> IntVal(60)],
      [path |-> P_url, val |-> StrVal("pg://file")],
      [path |-> P_max_connections, val |-> IntVal(20)],
      [path |-> P_pool_timeout, val |-> IntVal(5)],
      [path |-> P_level, val |-> StrVal("debug")],
      [path |-> P_format, val |-> StrVal("json")],
      [path |-> P_jwt_secret, val |-> StrVal("file-secret")],
      [path |-> P_redis_url, val |-> StrVal("redis://file")] }

FileCorsCandidates ==
    { JObject([JEmptyObj EXCEPT !["allow_origins"] = JArr(<<>>)]),
      JObject([JEmptyObj EXCEPT !["allow_credentials"] = JScalarField(JBool(TRUE)),
                                !["allow_methods"] = JArr(<<JStr("*")>>)]),
      JNotObject("str") }

Files ==
    {NoFile, BadFile}
    \cup { Document(es, JNotObject("absent")) :
             es \in {x \in SUBSET FileCandidates :
                        Functional(x) /\ Cardinality(x) <= MaxFileKeys} }
    \cup { Document(es, c) :
             es \in {x \in SUBSET FileCandidates :
                        Functional(x) /\ Cardinality(x) + 1 <= MaxFileKeys},
             c \in FileCorsCandidates }

AppCandidates ==
    { [path |-> AppDotted("SERVER", <<"HOST">>), val |-> "::1"],
      [path |-> AppDotted("SERVER", <<"PORT">>), val |-> "9090"],
      [path |-> AppDotted("SERVER", <<"PORT">>), val |-> "http"],
      [path |-> AppDotted("SERVER", <<"TIMEOUT">>), val |-> "45"],
      [path |-> AppDotted("DATABASE", <<"URL">>), val |-> "pg://app"],
      [path |-> AppDotted("SECRETS", <<"JWT", "_", "SECRET">>), val |-> "app-secret"],
      [path |-> AppDotted("SECRETS", <<"REDIS", "_", "URL">>), val |-> "redis://app"],
      [path |-> AppFlat("DATABASE", <<"URL">>), val |-> "pg://flat"] }

SecretChoices ==
    [ db    : {Unset, SetTo(""), SetTo("pg://env")},
      jwt   : {Unset, SetTo(""), SetTo("env-secret")},
      redis : {Unset, SetTo("redis://env")} ]

EnvOf(app, sec) ==
    [ n \in EnvNames |->
        IF n = DATABASE_URL THEN sec.db
        ELSE IF n = JWT_SECRET THEN sec.jwt
        ELSE IF n = REDIS_URL THEN sec.redis
        ELSE IF \E x \in app : x.path = n
             THEN SetTo((CHOOSE x \in app : x.path = n).val)
        ELSE Unset ]

Envs ==
    { EnvOf(app, sec) :
        app \in {x \in SUBSET AppCandidates :
                    Functional(x) /\ Cardinality(x) <= MaxAppVars},
        sec \in SecretChoices }

NoEnv == [n \in EnvNames |-> Unset]
Dotenvs ==
    { NoEnv,
      [NoEnv EXCEPT ![DATABASE_URL] = SetTo("pg://dotenv"),
                    ![AppDotted("LOGGING", <<"LEVEL">>)] = SetTo("trace")] }

(***************************************************************************)
(* AppConfig in the file format.  #[derive(Serialize, Deserialize)] writes *)
(* and reads each section as a table and each field under its name.  The   *)
(* format has strings, booleans, arrays and signed 64-bit integers, and no *)
(* null.  The u64 fields reach beyond the integers of the checker, so in   *)
(* this part an integer is four 16-bit limbs, most significant first.      *)
(***************************************************************************)
Limb == 2^16
WideOf(n) == <<0, 0, n \div Limb, n % Limb>>
I64Max == <<(Limb \div 2) - 1, Limb - 1, Limb - 1, Limb - 1>>
I64MaxPlus1 == <<Limb \div 2, 0, 0, 0>>
U64Max == <<Limb - 1, Limb - 1, Limb - 1, Limb - 1>>
FitsI64(w) == w[1] < Limb \div 2
FitsU16(w) == w[1] = 0 /\ w[2] = 0 /\ w[3] = 0
FitsU32(w) == w[1] = 0 /\ w[2] = 0
NarrowOf(w) == w[3] * Limb + w[4]

\* An AppConfig with its u64 fields widened.
Widen(cfg) ==
    [cfg EXCEPT !.server.timeout = WideOf(@),
                !.database.pool_timeout = WideOf(@),
                !.cors.max_age = WideOf(@)]

\* A key of a table: absent, or a value of the format.
TAbsent == [k |-> "absent", s |-> "", i |-> WideOf(0), b |-> FALSE, a |-> <<>>]
TStr(s) == [TAbsent EXCEPT !.k = "str", !.s = s]
TInt(w) == [TAbsent EXCEPT !.k = "int", !.i = w]
TBool(b) == [TAbsent EXCEPT !.k = "bool", !.b = b]
TArr(a) == [TAbsent EXCEPT !.k = "arr", !.a = a]

\* Option<String>: None has no representation and the key is left out.
TOpt(o) == IF o.some THEN TStr(o.v) ELSE TAbsent

\* A u64 is written as an integer of the format if it fits one.
U64Fields(cfg) == {cfg.server.timeout, cfg.database.pool_timeout, cfg.cors.max_age}

\* Serialize for ServerConfig, DatabaseConfig, LoggingConfig, SecretsConfig
\* and CorsConfig, field by field.
ToTomlTables(cfg) ==
    [ server   |-> [ host    |-> TStr(cfg.server.host),
                     port    |-> TInt(WideOf(cfg.server.port)),
                     timeout |-> TInt(cfg.server.timeout) ],
      database |-> [ url             |-> TStr(cfg.database.url),
                     max_connections |-> TInt(WideOf(cfg.database.max_connections)),
                     pool_timeout    |-> TInt(cfg.database.pool_timeout) ],
      logging  |-> [ level  |-> TStr(cfg.logging.level),
                     format |-> TStr(cfg.logging.format) ],
      secrets  |-> [ jwt_secret |-> TStr(cfg.secrets.jwt_secret),
                     redis_url  |-> TOpt(cfg.secrets.redis_url) ],
      cors     |-> [ allow_origins     |-> TArr(cfg.cors.allow_origins),
                     allow_methods     |-> TArr(cfg.cors.allow_methods),
                     allow_headers     |-> TArr(cfg.cors.allow_headers),
                     allow_credentials |-> TBool(cfg.cors.allow_credentials),
                     expose_headers    |-> TArr(cfg.cors.expose_headers),
                     max_age           |-> TInt(cfg.cors.max_age) ] ]

OutOfRange == [kind |-> "OutOfRange", var_name |-> "", msg |-> "u64"]
InvalidType == [kind |-> "InvalidType", var_name |-> "", msg |-> ""]

\* Serialize for AppConfig into the file format.
ToToml(cfg) ==
    IF \E w \in U64Fields(cfg) : ~ FitsI64(w) THEN Err(OutOfRange)
    ELSE Ok(ToTomlTables(cfg))

\* Deserialize of one key: what type it must have to be accepted.
TKeyOk(f, kind) == f.k = "absent" \/ f.k = kind
TStrOr(f, default) == IF f.k = "absent" THEN default ELSE f.s
TIntOr(f, default) == IF f.k = "absent" THEN default ELSE NarrowOf(f.i)
TWideOr(f, default) == IF f.k = "absent" THEN WideOf(default) ELSE f.i
TArrOr(f, default) == IF f.k = "absent" THEN default ELSE f.a
TBoolOr(f, default) == IF f.k = "absent" THEN default ELSE f.b

TomlTypesOk(d) ==
    /\ TKeyOk(d.server.host, "str")
    /\ TKeyOk(d.server.port, "int") /\ FitsU16(d.server.port.i)
    /\ TKeyOk(d.server.timeout, "int")
    /\ TKeyOk(d.database.url, "str")
    /\ TKeyOk(d.database.max_connections, "int") /\ FitsU32(d.database.max_connections.i)
    /\ TKeyOk(d.database.pool_timeout, "int")
    /\ TKeyOk(d.logging.level, "str") /\ TKeyOk(d.logging.format, "str")
    /\ TKeyOk(d.secrets.jwt_secret, "str") /\ TKeyOk(d.secrets.redis_url, "str")
    /\ TKeyOk(d.cors.allow_origins, "arr") /\ TKeyOk(d.cors.allow_methods, "arr")
    /\ TKeyOk(d.cors.allow_headers, "arr") /\ TKeyOk(d.cors.allow_credentials, "bool")
    /\ TKeyOk(d.cors.expose_headers, "arr") /\ TKeyOk(d.cors.max_age, "int")

\* A reader that never reads the key.
TOptNone(f) == None

\* Deserialize of an Option<String> field.
TOptOr(f) == IF f.k = "absent" THEN None ELSE Some(f.s)

\* Deserialize for AppConfig with #[serde(default)] on every struct: a key
\* that is absent keeps the default of its field.
FromToml(d) ==
    IF ~ TomlTypesOk(d) THEN Err(InvalidType)
    ELSE Ok([ server   |-> [ host    |-> TStrOr(d.server.host, ServerDefault.host),
                             port    |-> TIntOr(d.server.port, ServerDefault.port),
                             timeout |-> TWideOr(d.server.timeout, ServerDefault.timeout) ],
              database |-> [ url |-> TStrOr(d.database.url, DatabaseDefault.url),
                             max_connections |->
                                 TIntOr(d.database.max_connections,
                                        DatabaseDefault.max_connections),
                             pool_timeout |->
                                 TWideOr(d.database.pool_timeout,
                                         DatabaseDefault.pool_timeout) ],
              logging  |-> [ level  |-> TStrOr(d.logging.level, LoggingDefault.level),
                             format |-> TStrOr(d.logging.format, LoggingDefault.format) ],
              secrets  |-> [ jwt_secret |->
                                 TStrOr(d.secrets.jwt_secret, SecretsDefault.jwt_secret),
                             redis_url |-> TOptOr(d.secrets.redis_url) ],
              cors     |-> [ allow_origins |->
                                 TArrOr(d.cors.allow_origins, CorsDefault.allow_origins),
                             allow_methods |->
                                 TArrOr(d.cors.allow_methods, CorsDefault.allow_methods),
                             allow_headers |->
                                 TArrOr(d.cors.allow_headers, CorsDefault.allow_headers),
                             allow_credentials |->
                                 TBoolOr(d.cors.allow_credentials,
                                         CorsDefault.allow_credentials),
                             expose_headers |->
                                 TArrOr(d.cors.expose_headers, CorsDefault.expose_headers),
                             max_age |-> TWideOr(d.cors.max_age, CorsDefault.max_age) ] ])

AppConfigDefault ==
    [ server |-> ServerDefault, database |-> DatabaseDefault, logging |-> LoggingDefault,
      secrets |-> SecretsDefault, cors |-> CorsDefault ]

TomlIdle == tcfg = Widen(AppConfigDefault) /\ tdoc = NotRun /\ tback = NotRun

(***************************************************************************)
(* The parts of the state a specification leaves alone.                    *)
(***************************************************************************)
NoCall == [op |-> "none", code |-> 0, msg |-> "", data |-> None]
NoResp == [code |-> 0, msg |-> "", data |-> None, timestamp |-> 0]

LoadIdle ==
    /\ file = NoFile /\ env = NoEnv /\ dotenv = NoEnv /\ loadResult = NotRun
CorsIdle == corsCfg = CorsDefault /\ corsResult = NotRun
RespIdle == call = NoCall /\ resp = NoResp /\ now = 0
MainIdle ==
    /\ pc = "idle" /\ loads = 0 /\ docs = FALSE /\ corsLayer = NotRun
    /\ bound = FALSE /\ inflight = 0 /\ served = 0 /\ exit = NotRun
    /\ pool = NotRun
NoAppError == [kind |-> "None", status |-> 0, msg |-> ""]
SectionIdle ==
    /\ corsPrior = CorsDefault /\ corsValue = JNotObject("absent")
    /\ corsLoaded = NotRun /\ layerResult = NotRun
ErrIdle == herr = NoAppError /\ hresp = NotRun
ReqIdle == reqs = <<>> /\ nextId = 0 /\ serving = TRUE

(***************************************************************************)
(* The loader as a state machine: the inputs are fixed at start and        *)
(* AppConfig::load runs on them.                                           *)
(***************************************************************************)
Init ==
    /\ file \in Files
    /\ env \in Envs
    /\ dotenv \in Dotenvs
    /\ loadResult = NotRun
    /\ CorsIdle /\ RespIdle /\ MainIdle /\ TomlIdle
    /\ SectionIdle /\ ErrIdle /\ ReqIdle

AppConfigLoad ==
    /\ env' = Dotenv(env, dotenv)
    /\ loadResult' = Load(file, env')
    /\ UNCHANGED <<file, dotenv, corsVars, respVars, mainVars, tomlVars, sectionVars, errVars, reqVars>>

Next == AppConfigLoad

Spec == Init /\ [][Next]_vars

(***************************************************************************)
(* CorsConfig sections and their validation.                               *)
(***************************************************************************)
SeqsUpTo(S, n) == UNION {[1..m -> S] : m \in 0..n}

CorsConfigs ==
    [ allow_origins     : SeqsUpTo({"*", "https://a.example"}, MaxListLen),
      allow_methods     : SeqsUpTo({"*", "GET"}, MaxListLen),
      allow_headers     : SeqsUpTo({"*", "Accept"}, MaxListLen),
      allow_credentials : BOOLEAN,
      expose_headers    : {<<>>, <<"X-Total-Count">>},
      max_age           : {0, DefaultMaxAge} ]

CorsInit ==
    /\ corsCfg \in CorsConfigs
    /\ corsResult = NotRun
    /\ LoadIdle /\ RespIdle /\ MainIdle /\ TomlIdle
    /\ SectionIdle /\ ErrIdle /\ ReqIdle

\* validate() is called on the section.
Validate ==
    /\ corsResult' = CorsValidate(corsCfg)
    /\ UNCHANGED <<corsCfg, loadVars, respVars, mainVars, tomlVars, sectionVars, errVars, reqVars>>

\* The same configuration with allow_credentials changed.
SetCredentials(b) ==
    /\ corsCfg.allow_credentials # b
    /\ corsCfg' = [corsCfg EXCEPT !.allow_credentials = b]
    /\ corsResult' = NotRun
    /\ UNCHANGED <<loadVars, respVars, mainVars, tomlVars, sectionVars, errVars, reqVars>>

CorsNext == Validate \/ \E b \in BOOLEAN : SetCredentials(b)

CorsSpec == CorsInit /\ [][CorsNext]_vars

(***************************************************************************)
(* load_from_value on a section.  The value is any JSON value: an object   *)
(* whose keys are absent, of the type the section reads, or of another     *)
(* type, with or without a key the section does not know; or no object.    *)
(***************************************************************************)
UnknownKey == "allow_origin"

ListOptions ==
    { JAbsent,
      JArr(<<JStr("https://b.example")>>),
      JArr(<<JStr("PATCH"), JNum(5), JNull, JStr("GET")>>),
      JScalarField(JStr("*")) }
BoolOptions ==
    { JAbsent, JScalarField(JBool(TRUE)), JScalarField(JStr("true")), JScalarField(JNum(1)) }
AgeOptions ==
    { JAbsent, JScalarField(JNum(60)), JScalarField(JNum(-1)), JScalarField(JStr("60")) }

KnownObjects ==
    [ allow_origins     : ListOptions,
      allow_methods     : ListOptions,
      allow_headers     : ListOptions,
      allow_credentials : BoolOptions,
      expose_headers    : ListOptions,
      max_age           : AgeOptions ]

\* The same object with the unknown key added.
WithUnknownKey(o) ==
    [key \in CorsKeys \cup {UnknownKey} |->
        IF key = UnknownKey THEN JArr(<<JStr("https://c.example")>>) ELSE o[key]]

SectionValues ==
    { JObject(o) : o \in KnownObjects }
    \cup { JObject(WithUnknownKey(o)) : o \in KnownObjects }
    \cup { JNotObject(kind) : kind \in {"null", "bool", "num", "str", "arr"} }

\* A section that differs from the defaults in every field.
CorsCustom ==
    [ allow_origins     |-> <<"https://a.example">>,
      allow_methods     |-> <<"GET">>,
      allow_headers     |-> <<"Accept">>,
      allow_credentials |-> FALSE,
      expose_headers    |-> <<>>,
      max_age           |-> 0 ]

SectionInit ==
    /\ corsCfg \in {CorsDefault, CorsCustom}
    /\ corsResult = NotRun
    /\ corsPrior = corsCfg /\ corsValue = JNotObject("absent")
    /\ corsLoaded = NotRun /\ layerResult = NotRun
    /\ LoadIdle /\ RespIdle /\ MainIdle /\ TomlIdle /\ ErrIdle /\ ReqIdle

\* section.load_from_value(&value)
LoadFromValue(value) ==
    /\ corsLoaded = NotRun
    /\ corsPrior' = corsCfg
    /\ corsValue' = value
    /\ corsCfg' = CorsLoadFromValue(corsCfg, value)
    /\ corsLoaded' = Ok("unit")
    /\ UNCHANGED <<corsResult, layerResult, loadVars, respVars, mainVars, tomlVars,
                   errVars, reqVars>>

SectionNext == \E value \in SectionValues : LoadFromValue(value)

SectionSpec == SectionInit /\ [][SectionNext]_vars

(***************************************************************************)
(* The response envelope (core/response.rs).  The timestamp is the reading *)
(* of the clock at construction.                                           *)
(***************************************************************************)
\* ApiResponse::new
ApiNew(code, msg, data, t) == [code |-> code, msg |-> msg, data |-> data, timestamp |-> t]

\* A success that carries the transport status instead of 0.
ApiSuccessWithStatus(x, t) == ApiNew(200, "Success", Some(x), t)

\* ApiResponse::success
ApiSuccess(x, t) == ApiNew(0, "Success", Some(x), t)

\* ApiResponse::error
ApiError(code, msg, t) == [code |-> code, msg |-> msg, data |-> None, timestamp |-> t]

\* ApiResponse::fail
ApiFail(msg, t) == ApiError(1, msg, t)

Payloads == {"", "healthy", "Hello, World!"}
Codes == {0, 1, 400, 10100}
Messages == {"Success", "Database error"}

RespInit ==
    /\ call = NoCall /\ resp = NoResp /\ now = 0
    /\ LoadIdle /\ CorsIdle /\ MainIdle /\ TomlIdle
    /\ SectionIdle /\ ErrIdle /\ ReqIdle

Tick ==
    /\ now < MaxClock
    /\ now' = now + 1
    /\ UNCHANGED <<call, resp, loadVars, corsVars, mainVars, tomlVars, sectionVars, errVars, reqVars>>

CallNew(code, msg, data) ==
    /\ call' = [op |-> "new", code |-> code, msg |-> msg, data |-> data]
    /\ resp' = ApiNew(code, msg, data, now)
    /\ UNCHANGED <<now, loadVars, corsVars, mainVars, tomlVars, sectionVars, errVars, reqVars>>

CallSuccess(x) ==
    /\ call' = [op |-> "success", code |-> 0, msg |-> "", data |-> Some(x)]
    /\ resp' = ApiSuccess(x, now)
    /\ UNCHANGED <<now, loadVars, corsVars, mainVars, tomlVars, sectionVars, errVars, reqVars>>

CallError(code, msg) ==
    /\ call' = [op |-> "error", code |-> code, msg |-> msg, data |-> None]
    /\ resp' = ApiError(code, msg, now)
    /\ UNCHANGED <<now, loadVars, corsVars, mainVars, tomlVars, sectionVars, errVars, reqVars>>

CallFail(msg) ==
    /\ call' = [op |-> "fail", code |-> 0, msg |-> msg, data |-> None]
    /\ resp' = ApiFail(msg, now)
    /\ UNCHANGED <<now, loadVars, corsVars, mainVars, tomlVars, sectionVars, errVars, reqVars>>

RespNext ==
    \/ Tick
    \/ \E c \in Codes, m \in Messages, d \in {None} \cup {Some(x) : x \in Payloads} :
          CallNew(c, m, d)
    \/ \E x \in Payloads : CallSuccess(x)
    \/ \E c \in Codes, m \in Messages : CallError(c, m)
    \/ \E m \in Messages : CallFail(m)

RespSpec == RespInit /\ [][RespNext]_vars

(***************************************************************************)
(* AppError at the HTTP boundary (error/mod.rs).  A handler that returns   *)
(* Err(e) is answered with e.into_response().  An error is its variant,    *)
(* the status of Http { status } and the message of Validation(msg).       *)
(***************************************************************************)
AppErr(kind, status, msg) == [kind |-> kind, status |-> status, msg |-> msg]

\* http::StatusCode holds 100..=999.
StatusCodes == 100..999

HandlerErrors ==
    { AppErr(k, 0, "") : k \in {"Config", "Database", "Io", "Serde", "Anyhow", "FileHandle"} }
    \cup { AppErr("Validation", 0, m) : m \in {"", "name is required"} }
    \cup { AppErr("Http", st, "") : st \in StatusCodes }

\* A match that answers a serialization error with 500.
StatusAndMessageSerde500(e) ==
    CASE e.kind = "Config" -> [status |-> 500, message |-> "Configuration error"]
      [] e.kind = "Database" -> [status |-> 500, message |-> "Database error"]
      [] e.kind = "Validation" -> [status |-> 400, message |-> e.msg]
      [] e.kind = "Io" -> [status |-> 500, message |-> "IO error"]
      [] e.kind = "Serde" -> [status |-> 500, message |-> "Invalid data format"]
      [] e.kind = "Anyhow" -> [status |-> 500, message |-> "Internal server error"]
      [] e.kind = "FileHandle" -> [status |-> 400, message |-> "File upload error"]
      [] e.kind = "Http" -> [status |-> e.status, message |-> "Request error"]

\* let (status, message) = match self { .. }
StatusAndMessage(e) ==
    CASE e.kind = "Config" -> [status |-> 500, message |-> "Configuration error"]
      [] e.kind = "Database" -> [status |-> 500, message |-> "Database error"]
      [] e.kind = "Validation" -> [status |-> 400, message |-> e.msg]
      [] e.kind = "Io" -> [status |-> 500, message |-> "IO error"]
      [] e.kind = "Serde" -> [status |-> 400, message |-> "Invalid data format"]
      [] e.kind = "Anyhow" -> [status |-> 500, message |-> "Internal server error"]
      [] e.kind = "FileHandle" -> [status |-> 400, message |-> "File upload error"]
      [] e.kind = "Http" -> [status |-> e.status, message |-> "Request error"]

\* impl IntoResponse for AppError: the envelope's code is status.as_u16().
IntoResponse(e, t) ==
    LET sm == StatusAndMessage(e) IN
    [status |-> sm.status, body |-> ApiError(sm.status, sm.message, t)]

ErrInit ==
    /\ herr = NoAppError /\ hresp = NotRun
    /\ reqs = <<>> /\ nextId = 0 /\ serving = TRUE
    /\ LoadIdle /\ CorsIdle /\ RespIdle /\ MainIdle /\ TomlIdle /\ SectionIdle

\* A handler returns Err(e) and axum answers the request with
\* e.into_response(); the service is then ready for the next request.
HandlerFails(e) ==
    /\ serving
    /\ herr' = e
    /\ hresp' = Ok(IntoResponse(e, now))
    /\ UNCHANGED <<loadVars, corsVars, respVars, mainVars, tomlVars, sectionVars, reqVars>>

ErrNext == \E e \in HandlerErrors : HandlerFails(e)

ErrSpec == ErrInit /\ [][ErrNext]_vars

(***************************************************************************)
(* The middleware stack of main (main.rs:160-202).  ServiceBuilder applies *)
(* its layers outermost first, so a request passes, in this order: the     *)
(* CORS layer, the rate limiter, the error handler, the buffer, the        *)
(* compression, the request-id middleware, the trace layer, and then its   *)
(* handler or the 404 fallback.  An x-request-id header value is a number: *)
(* 0 for no header, k > 0 for the k-th id Uuid::new_v4 made, -1 for any    *)
(* other text.                                                             *)
(***************************************************************************)
NoResponse == [status |-> 0, by |-> "none", hdr |-> 0]
Response(status, by) == [status |-> status, by |-> by, hdr |-> 0]

\* A request as it arrives: hdr is the x-request-id among its headers.
NewRequest(client) ==
    [stage |-> "rate_limit", client |-> client, hdr |-> client, id |-> 0, seen |-> 0,
     resp |-> NoResponse]

ReqInit ==
    /\ reqs = <<>> /\ nextId = 0 /\ serving = TRUE
    /\ LoadIdle /\ CorsIdle /\ RespIdle /\ MainIdle /\ TomlIdle /\ SectionIdle /\ ErrIdle

\* A client sends a request, with or without an x-request-id of its own
\* (which may be an id the server has handed out).
Arrive(client) ==
    /\ serving
    /\ Len(reqs) < MaxInflight
    /\ reqs' = Append(reqs, NewRequest(client))
    /\ UNCHANGED <<nextId, serving, loadVars, corsVars, respVars, mainVars, tomlVars,
                   sectionVars, errVars>>

\* GovernorLayer: the request passes, or the limiter answers it itself (429
\* over the quota, 500 when it finds no key); it sits outside the error
\* handler.
RateLimit(i, outcome) ==
    /\ reqs[i].stage = "rate_limit"
    /\ reqs' = [reqs EXCEPT ![i] =
                  IF outcome = "pass" THEN [@ EXCEPT !.stage = "buffer"]
                  ELSE [@ EXCEPT !.stage = "done",
                                 !.resp = Response(IF outcome = "too_many" THEN 429 ELSE 500,
                                                   "rate_limiter")]]
    /\ UNCHANGED <<nextId, serving, loadVars, corsVars, respVars, mainVars, tomlVars,
                   sectionVars, errVars>>

\* BufferLayer under HandleErrorLayer: the request passes on (through the
\* compression), or the buffer fails and the error handler answers
\* (StatusCode::INTERNAL_SERVER_ERROR, "Unhandled error: ..").
Buffer(i, ok) ==
    /\ reqs[i].stage = "buffer"
    /\ reqs' = [reqs EXCEPT ![i] =
                  IF ok THEN [@ EXCEPT !.stage = "request_id"]
                  ELSE [@ EXCEPT !.stage = "done", !.resp = Response(500, "handle_error")]]
    /\ UNCHANGED <<nextId, serving, loadVars, corsVars, respVars, mainVars, tomlVars,
                   sectionVars, errVars>>

\* A middleware that leaves a client's x-request-id in place.
RequestIdKeepingClient(i) ==
    /\ reqs[i].stage = "request_id"
    /\ nextId' = nextId + 1
    /\ reqs' = [reqs EXCEPT ![i] =
                  [@ EXCEPT !.stage = "handler", !.id = nextId',
                            !.hdr = IF @ = 0 THEN nextId' ELSE @]]
    /\ UNCHANGED <<serving, loadVars, corsVars, respVars, mainVars, tomlVars,
                   sectionVars, errVars>>

\* request_id_middleware up to next.run(request): a fresh id is made and
\* inserted as x-request-id, replacing the header the request had.
RequestId(i) ==
    /\ reqs[i].stage = "request_id"
    /\ nextId' = nextId + 1
    /\ reqs' = [reqs EXCEPT ![i] = [@ EXCEPT !.stage = "handler", !.id = nextId',
                                              !.hdr = nextId']]
    /\ UNCHANGED <<serving, loadVars, corsVars, respVars, mainVars, tomlVars,
                   sectionVars, errVars>>

\* next.run(request): the handler of the route, or handle_404, reads the
\* request (its x-request-id among the headers) and returns a response.
Handle(i, result) ==
    /\ reqs[i].stage = "handler"
    /\ reqs' = [reqs EXCEPT ![i] =
                  [@ EXCEPT !.stage = "response", !.seen = reqs[i].hdr,
                            !.resp =
                                CASE result = "ok" -> Response(200, "handler")
                                  [] result = "app_error" ->
                                        Response(IntoResponse(AppErr("Validation", 0, "bad"),
                                                              now).status, "handler")
                                  [] result = "not_found" -> Response(404, "fallback")
                                  [] result = "render_failed" -> Response(500, "fallback")]]
    /\ UNCHANGED <<nextId, serving, loadVars, corsVars, respVars, mainVars, tomlVars,
                   sectionVars, errVars>>

\* request_id_middleware after next.run: the id is inserted as x-request-id
\* of the response.
TagResponse(i) ==
    /\ reqs[i].stage = "response"
    /\ reqs' = [reqs EXCEPT ![i] = [@ EXCEPT !.stage = "done", !.resp.hdr = reqs[i].id]]
    /\ UNCHANGED <<nextId, serving, loadVars, corsVars, respVars, mainVars, tomlVars,
                   sectionVars, errVars>>

ReqNext ==
    \/ \E client \in {0, -1} \cup 1..nextId : Arrive(client)
    \/ \E i \in 1..Len(reqs), outcome \in {"pass", "too_many", "no_key"} :
          RateLimit(i, outcome)
    \/ \E i \in 1..Len(reqs), ok \in BOOLEAN : Buffer(i, ok)
    \/ \E i \in 1..Len(reqs) : RequestId(i)
    \/ \E i \in 1..Len(reqs),
           result \in {"ok", "app_error", "not_found", "render_failed"} : Handle(i, result)
    \/ \E i \in 1..Len(reqs) : TagResponse(i)

ReqSpec == ReqInit /\ [][ReqNext]_vars

Requests == 1..Len(reqs)
Finished(i) == reqs[i].stage = "done"
\* The request was answered by a layer outside the handlers.
RefusedBy(i) == IF Finished(i) /\ reqs[i].resp.by \in {"rate_limiter", "handle_error"}
                THEN reqs[i].resp.by ELSE "none"
\* The handler, or handle_404, has read the request.
Handled(i) == reqs[i].stage \in {"response", "done"} /\ RefusedBy(i) = "none"

\* C15 as the spec words it: every error a middleware raises is turned into
\* a 500 response by the top-level error handler, and the server goes on
\* serving.  The rate limiter sits outside that handler and answers its own
\* errors, 429 among them.
C15_AsStated ==
    /\ serving
    /\ \A i \in Requests :
          RefusedBy(i) # "none" =>
              reqs[i].resp.status = 500 /\ reqs[i].resp.by = "handle_error"

\* The part about the id a handled request carries: the x-request-id its
\* handler read is the id the middleware made for it, not the client's own
\* header and not the id of any other request, and the response carries it.
OwnIdSeen ==
    \A i \in Requests :
        Handled(i) =>
            /\ reqs[i].id > 0
            /\ reqs[i].seen = reqs[i].id
            /\ reqs[i].seen # reqs[i].client
            /\ Finished(i) => reqs[i].resp.hdr = reqs[i].seen
            /\ \A j \in Requests \ {i} : reqs[i].seen # reqs[j].id

\* The middleware's first half acts at most once on a request: an id, once
\* made, stays.
TaggedOnce ==
    \A i \in Requests : reqs[i].id # 0 => i \in 1..Len(reqs') /\ reqs'[i].id = reqs[i].id

\* C16 as the spec words it: the middleware runs once for every request
\* (so every answered request carries the id made for it), and the id a
\* handler sees is the request's own.  A request the rate limiter or the
\* error handler answers never reaches the middleware.
C16_AsStated ==
    /\ OwnIdSeen
    /\ \A i \in Requests :
          Finished(i) => reqs[i].id > 0 /\ reqs[i].resp.hdr = reqs[i].id

\* C16, amended: for any number of requests in flight, the middleware runs
\* once for each request that passes the rate limiter and the buffer, and
\* not at all for the others, whose responses carry no x-request-id; the
\* x-request-id a handler (or the 404 fallback) sees is the id made for that
\* very request, it replaces the client's own header, it is the id on the
\* response, and it is never the id of another request.
C16_RequestIds ==
    /\ [](OwnIdSeen /\ \A i \in Requests :
                          RefusedBy(i) # "none" =>
                              reqs[i].id = 0 /\ reqs[i].resp.hdr = 0)
    /\ [][TaggedOnce]_vars

\* Two requests are with their handlers at once, and the later one came with
\* the earlier one's id as its own x-request-id.
C16_Witness ==
    \E i, j \in Requests :
        /\ i # j
        /\ reqs[i].stage = "response" /\ reqs[j].stage = "response"
        /\ reqs[j].client = reqs[i].id

(***************************************************************************)
(* build_cors_layer (core/cors.rs).  A policy of the layer is left at the  *)
(* default of CorsLayer::new(), set to Any, or set to a list; each call of *)
(* a builder method replaces what an earlier call set.                     *)
(***************************************************************************)
PolicyDefault == [mode |-> "default", items |-> <<>>]
PolicyAny == [mode |-> "any", items |-> <<>>]
PolicyList(items) == [mode |-> "list", items |-> items]

\* The strings of the model that are HTTP tokens: what str::parse::<Method>
\* and str::parse::<HeaderName> accept.
Tokens ==
    {"GET", "POST", "PUT", "DELETE", "OPTIONS", "HEAD", "*",
     "Authorization", "Content-Type", "Accept", "X-Request-ID", "X-Total-Count"}
IsToken(s) == s \in Tokens
\* str::parse::<HeaderValue> rejects control characters only.
IsHeaderValue(s) == s \notin {"bad\norigin"}

\* HeaderName is kept in lower case.
LowerHeader(s) ==
    CASE s = "Authorization" -> "authorization"
      [] s = "Content-Type" -> "content-type"
      [] s = "Accept" -> "accept"
      [] s = "X-Request-ID" -> "x-request-id"
      [] s = "X-Total-Count" -> "x-total-count"
      [] OTHER -> s

RECURSIVE MapLower(_)
MapLower(v) == IF v = <<>> THEN <<>> ELSE <<LowerHeader(Head(v))>> \o MapLower(Tail(v))

\* A loop of cors = cors.<setter>(x) over the items that parse: the last
\* one stays; with none the policy is untouched.
LastSet(parsed) ==
    IF parsed = <<>> THEN PolicyDefault ELSE PolicyList(<<parsed[Len(parsed)]>>)

ErrLayerCredentialsWildcard ==
    "Cannot combine Access-Control-Allow-Credentials: true with Access-Control-Allow-Methods: *"

\* A build_cors_layer whose first check looks at the origins.
BuildCorsLayerOriginCheck(c) ==
    IF c.allow_credentials /\ Contains(c.allow_origins, "*")
    THEN Err(InvalidConfig(ErrLayerCredentialsWildcard))
    ELSE Ok([ allow_methods |->
                  IF Contains(c.allow_methods, "*") THEN PolicyAny
                  ELSE LET methods == SelectSeq(c.allow_methods, IsToken) IN
                       IF methods # <<>> THEN PolicyList(methods) ELSE PolicyDefault,
              allow_origin |->
                  IF Contains(c.allow_origins, "*") THEN PolicyAny
                  ELSE LastSet(SelectSeq(c.allow_origins, IsHeaderValue)),
              allow_headers |-> LastSet(MapLower(SelectSeq(c.allow_headers, IsToken))),
              expose_headers |-> LastSet(MapLower(SelectSeq(c.expose_headers, IsToken))),
              allow_credentials |-> c.allow_credentials,
              max_age |-> c.max_age ])

\* build_cors_layer
BuildCorsLayer(c) ==
    IF c.allow_credentials /\ Contains(c.allow_methods, "*")
    THEN Err(InvalidConfig(ErrLayerCredentialsWildcard))
    ELSE Ok([ allow_methods |->
                  IF Contains(c.allow_methods, "*") THEN PolicyAny
                  ELSE LET methods == SelectSeq(c.allow_methods, IsToken) IN
                       IF methods # <<>> THEN PolicyList(methods) ELSE PolicyDefault,
              allow_origin |->
                  IF Contains(c.allow_origins, "*") THEN PolicyAny
                  ELSE LastSet(SelectSeq(c.allow_origins, IsHeaderValue)),
              allow_headers |-> LastSet(MapLower(SelectSeq(c.allow_headers, IsToken))),
              expose_headers |-> LastSet(MapLower(SelectSeq(c.expose_headers, IsToken))),
              allow_credentials |-> c.allow_credentials,
              max_age |-> c.max_age ])

(***************************************************************************)
(* A section validated and handed to build_cors_layer, in either order.    *)
(***************************************************************************)
\* build_cors_layer(&section)
BuildLayer ==
    /\ layerResult = NotRun
    /\ layerResult' = BuildCorsLayer(corsCfg)
    /\ UNCHANGED <<corsPrior, corsValue, corsLoaded, corsVars, loadVars, respVars,
                   mainVars, tomlVars, errVars, reqVars>>

LayerNext == Validate \/ BuildLayer

LayerSpec == CorsInit /\ [][LayerNext]_vars

(***************************************************************************)
(* main (main.rs) and AppState::init (core/state.rs).  The database, the   *)
(* migrations, the log cleanup, the socket and the clients are outside     *)
(* the program: each of their outcomes is a choice.                        *)
(***************************************************************************)
\* AppError
AppErrorConfig(e) == [kind |-> "Config", cause |-> e]
AppErrorOther(kind) == [kind |-> kind, cause |-> [kind |-> "", var_name |-> "", msg |-> ""]]

MinConnections == 5

\* str::parse::<log::LevelFilter>
LevelFilters == {"off", "error", "warn", "info", "debug", "trace"}

\* AppState::create_db_connection: the pool options, or the error of the
\* level that does not parse.
ConnectOptions(cfg) ==
    IF cfg.logging.level \notin LevelFilters THEN Err(AppErrorOther("Validation"))
    ELSE Ok([ url             |-> cfg.database.url,
              max_connections |-> cfg.database.max_connections,
              min_connections |-> MinConnections,
              connect_timeout |-> cfg.database.pool_timeout ])

MainFileCandidates ==
    { [path |-> P_level, val |-> StrVal("debug")],
      [path |-> P_level, val |-> StrVal("verbose")],
      [path |-> P_port, val |-> IntVal(8080)],
      [path |-> P_max_connections, val |-> IntVal(2)] }

MainFiles ==
    {NoFile, BadFile}
    \cup { Document(es, c) :
             es \in {x \in SUBSET MainFileCandidates : Functional(x)},
             c \in FileCorsCandidates \cup {JNotObject("absent")} }

MainEnvs == { EnvOf({}, sec) : sec \in SecretChoices }

MainInit ==
    /\ file \in MainFiles
    /\ env \in MainEnvs
    /\ dotenv \in Dotenvs
    /\ loadResult = NotRun
    /\ pc = "load" /\ loads = 0 /\ docs = FALSE /\ corsLayer = NotRun
    /\ bound = FALSE /\ inflight = 0 /\ served = 0 /\ exit = NotRun
    /\ pool = NotRun
    /\ CorsIdle /\ RespIdle /\ TomlIdle
    /\ SectionIdle /\ ErrIdle /\ ReqIdle

Config == OkVal(loadResult)

\* A `?` on an error: main returns it.
Return(r) == pc' = "exit" /\ exit' = r

\* let config = AppConfig::load()?;
MainLoad ==
    /\ pc = "load"
    /\ env' = Dotenv(env, dotenv)
    /\ loadResult' = Load(file, env')
    /\ loads' = loads + 1
    /\ IF IsOk(loadResult')
       THEN pc' = "init_tracing" /\ UNCHANGED exit
       ELSE Return(Err(AppErrorConfig(ErrVal(loadResult'))))
    /\ UNCHANGED <<file, dotenv, docs, corsLayer, bound, inflight, served,
                   corsVars, respVars, tomlVars, pool, sectionVars, errVars, reqVars>>

\* config.init_tracing()?; (init_tracing returns Ok(()) on every path)
MainInitTracing ==
    /\ pc = "init_tracing"
    /\ pc' = "db_connect"
    /\ UNCHANGED <<loads, docs, corsLayer, bound, inflight, served, exit,
                   loadVars, corsVars, respVars, tomlVars, pool, sectionVars, errVars, reqVars>>

\* sea_orm::Database::connect(&config.database.url).await?;
MainDbConnect(ok) ==
    /\ pc = "db_connect"
    /\ IF ok THEN pc' = "migrate" /\ UNCHANGED exit
       ELSE Return(Err(AppErrorOther("Database")))
    /\ UNCHANGED <<loads, docs, corsLayer, bound, inflight, served,
                   loadVars, corsVars, respVars, tomlVars, pool, sectionVars, errVars, reqVars>>

\* Migrator::up(&connection, None).await?;
MainMigrate(ok) ==
    /\ pc = "migrate"
    /\ IF ok THEN pc' = "app_state" /\ UNCHANGED exit
       ELSE Return(Err(AppErrorOther("Database")))
    /\ UNCHANGED <<loads, docs, corsLayer, bound, inflight, served,
                   loadVars, corsVars, respVars, tomlVars, pool, sectionVars, errVars, reqVars>>

\* let app_state = Arc::new(AppState::init(&config).await?);
MainAppState(ok) ==
    /\ pc = "app_state"
    /\ IF IsErr(ConnectOptions(Config)) THEN Return(Err(ErrVal(ConnectOptions(Config))))
       ELSE IF ok THEN pc' = "cleanup" /\ UNCHANGED exit
       ELSE Return(Err(AppErrorOther("Database")))
    /\ pool' = IF ok THEN ConnectOptions(Config) ELSE pool
    /\ UNCHANGED <<loads, docs, corsLayer, bound, inflight, served,
                   loadVars, corsVars, respVars, tomlVars, sectionVars, errVars, reqVars>>

\* The log cleanup: disabled, run once now (cleanup_old_logs(..)?), or left
\* to a spawned task.
MainCleanup(outcome) ==
    /\ pc = "cleanup"
    /\ IF outcome = "failed" THEN Return(Err(AppErrorOther("Io")))
       ELSE pc' = "router" /\ UNCHANGED exit
    /\ UNCHANGED <<loads, docs, corsLayer, bound, inflight, served,
                   loadVars, corsVars, respVars, tomlVars, pool, sectionVars, errVars, reqVars>>

\* The router; /docs is nested only when the level is "debug".
MainRouter ==
    /\ pc = "router"
    /\ docs' = (Config.logging.level = "debug")
    /\ pc' = "cors"
    /\ UNCHANGED <<loads, corsLayer, bound, inflight, served, exit,
                   loadVars, corsVars, respVars, tomlVars, pool, sectionVars, errVars, reqVars>>

\* The same step with the error of build_cors_layer dropped.
MainCorsIgnoringError ==
    /\ pc = "cors"
    /\ corsLayer' = BuildCorsLayer(Config.cors)
    /\ pc' = "layers"
    /\ UNCHANGED <<loads, docs, bound, inflight, served, exit,
                   loadVars, corsVars, respVars, tomlVars, pool, sectionVars, errVars, reqVars>>

\* let cors_layer = build_cors_layer(&config.cors)?;
MainCors ==
    /\ pc = "cors"
    /\ corsLayer' = BuildCorsLayer(Config.cors)
    /\ IF IsOk(corsLayer') THEN pc' = "layers" /\ UNCHANGED exit
       ELSE Return(Err(AppErrorConfig(ErrVal(corsLayer'))))
    /\ UNCHANGED <<loads, docs, bound, inflight, served,
                   loadVars, corsVars, respVars, tomlVars, pool, sectionVars, errVars, reqVars>>

\* The rate limiter and the middleware stack.
MainLayers ==
    /\ pc = "layers"
    /\ pc' = "bind"
    /\ UNCHANGED <<loads, docs, corsLayer, bound, inflight, served, exit,
                   loadVars, corsVars, respVars, tomlVars, pool, sectionVars, errVars, reqVars>>

\* let listener = tokio::net::TcpListener::bind(&config.server_addr()).await?;
MainBind(ok) ==
    /\ pc = "bind"
    /\ IF ok THEN pc' = "serve" /\ bound' = TRUE /\ UNCHANGED exit
       ELSE Return(Err(AppErrorOther("Io"))) /\ UNCHANGED bound
    /\ UNCHANGED <<loads, docs, corsLayer, inflight, served,
                   loadVars, corsVars, respVars, tomlVars, pool, sectionVars, errVars, reqVars>>

\* An accept loop that the shutdown signal does not stop.
AcceptAfterSignal ==
    /\ pc \in {"serve", "shutdown"}
    /\ inflight + served < MaxRequests
    /\ inflight' = inflight + 1
    /\ UNCHANGED <<pc, loads, docs, corsLayer, bound, served, exit,
                   loadVars, corsVars, respVars, tomlVars, pool, sectionVars, errVars, reqVars>>

\* axum::serve accepts a connection and its request.
Accept ==
    /\ pc = "serve"
    /\ inflight + served < MaxRequests
    /\ inflight' = inflight + 1
    /\ UNCHANGED <<pc, loads, docs, corsLayer, bound, served, exit,
                   loadVars, corsVars, respVars, tomlVars, pool, sectionVars, errVars, reqVars>>

\* A request in flight gets its response.
Respond ==
    /\ pc \in {"serve", "shutdown"}
    /\ inflight > 0
    /\ inflight' = inflight - 1
    /\ served' = served + 1
    /\ UNCHANGED <<pc, loads, docs, corsLayer, bound, exit,
                   loadVars, corsVars, respVars, tomlVars, pool, sectionVars, errVars, reqVars>>

\* shutdown_signal() returns: Ctrl+C or SIGTERM.
Signal ==
    /\ pc = "serve"
    /\ pc' = "shutdown"
    /\ UNCHANGED <<loads, docs, corsLayer, bound, inflight, served, exit,
                   loadVars, corsVars, respVars, tomlVars, pool, sectionVars, errVars, reqVars>>

\* The serve future ends once the requests in flight are answered: Ok(()).
ServeDone ==
    /\ pc = "shutdown"
    /\ inflight = 0
    /\ Return(Ok("unit"))
    /\ UNCHANGED <<loads, docs, corsLayer, bound, inflight, served,
                   loadVars, corsVars, respVars, tomlVars, pool, sectionVars, errVars, reqVars>>

\* The serve future ends with an I/O error: .map_err(AppError::Io)?
ServeError ==
    /\ pc = "serve"
    /\ Return(Err(AppErrorOther("Io")))
    /\ UNCHANGED <<loads, docs, corsLayer, bound, inflight, served,
                   loadVars, corsVars, respVars, tomlVars, pool, sectionVars, errVars, reqVars>>

MainNext ==
    \/ MainLoad
    \/ MainInitTracing
    \/ \E ok \in BOOLEAN : MainDbConnect(ok)
    \/ \E ok \in BOOLEAN : MainMigrate(ok)
    \/ \E ok \in BOOLEAN : MainAppState(ok)
    \/ \E outcome \in {"disabled", "done", "failed", "spawned"} : MainCleanup(outcome)
    \/ MainRouter
    \/ MainCors
    \/ MainLayers
    \/ \E ok \in BOOLEAN : MainBind(ok)
    \/ Accept
    \/ Respond
    \/ Signal
    \/ ServeDone
    \/ ServeError

MainSpec == MainInit /\ [][MainNext]_vars

\* The runtime keeps polling: a handler that can answer does answer, and the
\* serve future that can complete does complete.
MainFairSpec == MainSpec /\ WF_vars(Respond) /\ WF_vars(ServeDone)

(***************************************************************************)
(* An AppConfig written in the file format and read back.                  *)
(***************************************************************************)
WideSamples == {WideOf(0), WideOf(DefaultTimeout), I64Max, I64MaxPlus1, U64Max}

TomlConfigs ==
    { [ server   |-> [host |-> h, port |-> p, timeout |-> t],
        database |-> [url |-> "pg://db", max_connections |-> DefaultMaxConnections,
                      pool_timeout |-> pt],
        logging  |-> LoggingDefault,
        secrets  |-> [jwt_secret |-> j, redis_url |-> r],
        cors     |-> [CorsDefault EXCEPT !.allow_origins = o, !.max_age = m] ] :
        h \in {"", "127.0.0.1"}, p \in {0, U16Max}, t \in WideSamples,
        pt \in {WideOf(DefaultPoolTimeout), U64Max},
        j \in {"s3cret"}, r \in {None, Some(""), Some("redis://cache")},
        o \in {<<>>, <<"*">>}, m \in {WideOf(DefaultMaxAge), I64MaxPlus1} }

TomlInit ==
    /\ tcfg \in TomlConfigs
    /\ tdoc = NotRun /\ tback = NotRun
    /\ LoadIdle /\ CorsIdle /\ RespIdle /\ MainIdle
    /\ SectionIdle /\ ErrIdle /\ ReqIdle

Serialize ==
    /\ tdoc = NotRun
    /\ tdoc' = ToToml(tcfg)
    /\ UNCHANGED <<tcfg, tback, loadVars, corsVars, respVars, mainVars, sectionVars, errVars, reqVars>>

Parse ==
    /\ IsOk(tdoc) /\ tback = NotRun
    /\ tback' = FromToml(OkVal(tdoc))
    /\ UNCHANGED <<tcfg, tdoc, loadVars, corsVars, respVars, mainVars, sectionVars, errVars, reqVars>>

TomlNext == Serialize \/ Parse

TomlSpec == TomlInit /\ [][TomlNext]_vars

(***************************************************************************)
(* Properties of the loader.  They are stated over the inputs and the      *)
(* result; in a state where load has run, env is the environment load      *)
(* read (the process environment with the variables of .env added).        *)
(***************************************************************************)
Loaded == loadResult # NotRun

\* The secret variable written into a field, if the field has one.
SecretFor(path) ==
    IF path = P_url THEN {DATABASE_URL}
    ELSE IF path = P_jwt_secret THEN {JWT_SECRET}
    ELSE IF path = P_redis_url THEN {REDIS_URL}
    ELSE {}

SecretSet(path) == {n \in SecretFor(path) : env[n].set}
AppVarsFor(path) == {n \in AppNames : EnvKeyPath(n) = path /\ env[n].set}
FileValues(path) ==
    IF file.state = "ok" THEN {x.val : x \in {y \in file.entries : y.path = path}} ELSE {}

DefaultOf(path) ==
    CASE path = P_host -> {StrVal("127.0.0.1")}
      [] path = P_port -> {IntVal(DefaultPort)}
      [] path = P_timeout -> {IntVal(DefaultTimeout)}
      [] path = P_url -> {StrVal("")}
      [] path = P_max_connections -> {IntVal(DefaultMaxConnections)}
      [] path = P_pool_timeout -> {IntVal(DefaultPoolTimeout)}
      [] path = P_level -> {StrVal("info")}
      [] path = P_format -> {StrVal("pretty")}
      [] path = P_jwt_secret -> {StrVal("")}
      [] path = P_redis_url -> {}

\* The value of the highest-precedence source that supplies the field.
Resolved(path) ==
    IF SecretSet(path) # {} THEN {StrVal(env[n].v) : n \in SecretSet(path)}
    ELSE IF AppVarsFor(path) # {} THEN {EnvParse(env[n].v) : n \in AppVarsFor(path)}
    ELSE IF FileValues(path) # {} THEN FileValues(path)
    ELSE DefaultOf(path)

\* The field of a configuration at a key path, as a value (none for None).
ActualOf(cfg, path) ==
    CASE path = P_host -> {StrVal(cfg.server.host)}
      [] path = P_port -> {IntVal(cfg.server.port)}
      [] path = P_timeout -> {IntVal(cfg.server.timeout)}
      [] path = P_url -> {StrVal(cfg.database.url)}
      [] path = P_max_connections -> {IntVal(cfg.database.max_connections)}
      [] path = P_pool_timeout -> {IntVal(cfg.database.pool_timeout)}
      [] path = P_level -> {StrVal(cfg.logging.level)}
      [] path = P_format -> {StrVal(cfg.logging.format)}
      [] path = P_jwt_secret -> {StrVal(cfg.secrets.jwt_secret)}
      [] path = P_redis_url ->
            IF cfg.secrets.redis_url.some THEN {StrVal(cfg.secrets.redis_url.v)} ELSE {}

C2_AsStated ==
    (Loaded /\ ~ env[DATABASE_URL].set) => loadResult = Err(MissingVar("DATABASE_URL"))

\* No source other than DATABASE_URL supplies a non-empty database.url.
UrlNotSuppliedElsewhere ==
    IF AppVarsFor(P_url) # {} THEN \A n \in AppVarsFor(P_url) : env[n].v = ""
    ELSE FileValues(P_url) \subseteq {StrVal("")}

\* C2 amended: with DATABASE_URL unset and no non-empty database.url from
\* the file or an APP_ variable, load fails, and unless figment's extraction
\* failed first the error is MissingVar naming DATABASE_URL.
C2_MissingDatabaseUrl ==
    (Loaded /\ ~ env[DATABASE_URL].set /\ UrlNotSuppliedElsewhere) =>
        loadResult \in {Err(MissingVar("DATABASE_URL")), Err(FigmentError)}

\* DATABASE_URL unset, JWT_SECRET also missing, and load named DATABASE_URL.
C2_Witness ==
    /\ ~ env[DATABASE_URL].set /\ UrlNotSuppliedElsewhere
    /\ ~ env[JWT_SECRET].set
    /\ file.state = "ok" /\ file.entries # {}
    /\ loadResult = Err(MissingVar("DATABASE_URL"))

NoAppVars == \A n \in AppNames : ~ env[n].set
SecretsGiven ==
    /\ env[DATABASE_URL].set /\ env[DATABASE_URL].v # ""
    /\ env[JWT_SECRET].set /\ env[JWT_SECRET].v # ""

\* The defaults with the two required secrets filled in.
DefaultsWith(url, secret) ==
    [ server   |-> ServerDefault,
      database |-> [DatabaseDefault EXCEPT !.url = url],
      logging  |-> LoggingDefault,
      secrets  |-> [SecretsDefault EXCEPT !.jwt_secret = secret],
      cors     |-> CorsDefault ]

\* C3 as stated: no file, no APP_ variables, DATABASE_URL and JWT_SECRET
\* non-empty: load succeeds with those two values and every other field at
\* its default.
C3_AsStated ==
    (Loaded /\ file.state = "absent" /\ NoAppVars /\ SecretsGiven) =>
        loadResult = Ok(DefaultsWith(env[DATABASE_URL].v, env[JWT_SECRET].v))

\* C3 amended: the same with REDIS_URL unset as well.
C3_SecretsOnly ==
    (Loaded /\ file.state = "absent" /\ NoAppVars /\ SecretsGiven
        /\ ~ env[REDIS_URL].set) =>
        loadResult = Ok(DefaultsWith(env[DATABASE_URL].v, env[JWT_SECRET].v))

C3_Witness ==
    /\ Loaded /\ file.state = "absent" /\ NoAppVars /\ SecretsGiven
    /\ ~ env[REDIS_URL].set
    /\ IsOk(loadResult)
    /\ OkVal(loadResult).database.url = "pg://env"
    /\ OkVal(loadResult).secrets.jwt_secret = "env-secret"

\* Figment's extraction succeeded: load got as far as the required checks.
Extracted == Loaded /\ loadResult # Err(FigmentError)

\* C4: load never returns Ok with an empty database URL or signing secret;
\* an empty resolved database.url gives MissingVar DATABASE_URL, otherwise an
\* empty resolved secrets.jwt_secret gives MissingVar JWT_SECRET; an error
\* carries no configuration.
C4_RequiredNonEmpty ==
    /\ IsOk(loadResult) =>
          /\ OkVal(loadResult).database.url # ""
          /\ OkVal(loadResult).secrets.jwt_secret # ""
    /\ (Extracted /\ Resolved(P_url) = {StrVal("")}) =>
          loadResult = Err(MissingVar("DATABASE_URL"))
    /\ (Extracted /\ Resolved(P_url) # {StrVal("")}
          /\ Resolved(P_jwt_secret) = {StrVal("")}) =>
          loadResult = Err(MissingVar("JWT_SECRET"))
    /\ IsErr(loadResult) => loadResult.ok = {}

\* A database URL is there, the signing secret was set to the empty string
\* over a non-empty file value, and load named JWT_SECRET.
C4_Witness ==
    /\ Resolved(P_url) # {StrVal("")}
    /\ env[JWT_SECRET] = SetTo("")
    /\ FileValues(P_jwt_secret) = {StrVal("file-secret")}
    /\ loadResult = Err(MissingVar("JWT_SECRET"))

\* C7 as stated: load returns Ok only if every section passes validate().
C7_AsStated ==
    IsOk(loadResult) => IsOk(CorsValidate(OkVal(loadResult).cors))

(***************************************************************************)
(* Properties of CorsConfig::validate.                                     *)
(***************************************************************************)
Validated == corsResult # NotRun
Wildcard == Contains(corsCfg.allow_methods, "*")

\* C5 as stated: with "*" among the methods, validate fails with the
\* credentials message when allow_credentials is true, and the same
\* configuration with allow_credentials false passes.
C5_AsStated ==
    (Validated /\ Wildcard) =>
        IF corsCfg.allow_credentials
        THEN corsResult = Err(ErrCredentialsWildcard)
        ELSE corsResult = Ok("unit")

\* C5 amended: the same for configurations whose allow_origins and
\* allow_headers are not empty.
C5_CredentialsWildcard ==
    (Validated /\ Wildcard
        /\ ~ IsEmpty(corsCfg.allow_origins) /\ ~ IsEmpty(corsCfg.allow_headers)) =>
        IF corsCfg.allow_credentials
        THEN corsResult = Err(ErrCredentialsWildcard)
        ELSE corsResult = Ok("unit")

C5_Witness ==
    /\ Wildcard /\ corsCfg.allow_credentials
    /\ ~ IsEmpty(corsCfg.allow_origins) /\ ~ IsEmpty(corsCfg.allow_headers)
    /\ corsResult = Err(ErrCredentialsWildcard)

\* C6: validate fails whenever allow_origins, allow_methods or allow_headers
\* is empty, whatever the other fields hold.
C6_EmptyListsRejected ==
    (Validated /\ (\/ IsEmpty(corsCfg.allow_origins)
                   \/ IsEmpty(corsCfg.allow_methods)
                   \/ IsEmpty(corsCfg.allow_headers))) =>
        IsErr(corsResult)

\* Only allow_headers is empty, and validate failed.
C6_Witness ==
    /\ ~ IsEmpty(corsCfg.allow_origins) /\ ~ IsEmpty(corsCfg.allow_methods)
    /\ IsEmpty(corsCfg.allow_headers)
    /\ ~ corsCfg.allow_credentials
    /\ IsErr(corsResult)

(***************************************************************************)
(* Properties of the response envelope.                                    *)
(***************************************************************************)
\* C8: success(x) has code 0 and data Some(x); error(c, m) with c # 0 has
\* code c, msg m and data None.
C8_EnvelopeShape ==
    /\ call.op = "success" => (resp.code = 0 /\ resp.data = Some(call.data.v))
    /\ (call.op = "error" /\ call.code # 0) =>
          (resp.code = call.code /\ resp.msg = call.msg /\ resp.data = None)

\* success("") was called: the payload is empty and still Some.
C8_Witness ==
    /\ call.op = "success" /\ call.data = Some("")
    /\ resp.code = 0 /\ resp.data.some /\ resp.data # None /\ now > 0

(***************************************************************************)
(* Properties of the file format round trip.                               *)
(***************************************************************************)
FullyPopulated(cfg) == cfg.secrets.redis_url.some
Serialized == tdoc # NotRun
Parsed == tback # NotRun

NothingServed == ~ bound /\ inflight = 0 /\ served = 0

\* C10: the configuration is resolved exactly once before the listener is
\* bound and before any request is served; when load or build_cors_layer
\* fails, main returns that error and the listener is never bound and no
\* request is ever served.
C10_StartupOrder ==
    /\ loads <= 1
    /\ bound => (loads = 1 /\ IsOk(loadResult) /\ IsOk(corsLayer))
    /\ inflight + served > 0 => bound
    /\ IsErr(loadResult) =>
          /\ pc = "exit" /\ exit = Err(AppErrorConfig(ErrVal(loadResult)))
          /\ NothingServed
    /\ IsErr(corsLayer) =>
          /\ pc = "exit" /\ exit = Err(AppErrorConfig(ErrVal(corsLayer)))
          /\ NothingServed

\* load succeeded, build_cors_layer refused the section, and main returned
\* that error.
C10_Witness ==
    /\ loads = 1 /\ IsOk(loadResult)
    /\ corsLayer = Err(InvalidConfig(ErrLayerCredentialsWildcard))
    /\ pc = "exit" /\ IsErr(exit) /\ NothingServed

(***************************************************************************)
(* Properties of graceful shutdown.                                        *)
(***************************************************************************)
\* C11: once the shutdown signal is received no new connection is accepted
\* (the requests in flight only go down, each by being answered), main
\* returns only when none is left in flight, what it returns is Ok(()), and
\* it does return.
C11_GracefulShutdown ==
    /\ [][pc = "shutdown" =>
            /\ inflight' <= inflight
            /\ inflight' + served' = inflight + served
            /\ pc' \in {"shutdown", "exit"}
            /\ pc' = "exit" => (inflight = 0 /\ exit' = Ok("unit"))]_vars
    /\ (pc = "shutdown") ~> (pc = "exit" /\ exit = Ok("unit") /\ inflight = 0)

\* The signal arrived with every request of the run still in flight.
C11_Witness ==
    pc = "shutdown" /\ inflight = MaxRequests /\ served = 0 /\ bound

(***************************************************************************)
(* Properties of the connection pool.                                      *)
(***************************************************************************)
\* C18 as stated: whenever AppState::init has connected the pool from a
\* configuration load accepted, the pool's minimum connection count does
\* not exceed its maximum.
C18_AsStated ==
    IsOk(pool) => OkVal(pool).min_connections <= OkVal(pool).max_connections

(***************************************************************************)
(* Properties of load_from_value.                                          *)
(***************************************************************************)
\* The strings among the items of an array, in order.
StringsOf(a) ==
    LET strs == SelectSeq(a, LAMBDA x : x.k = "str") IN [i \in 1..Len(strs) |-> strs[i].s]

\* What a key of the value holds, when the value is an object.
Given(key) == corsValue.o[key]

ListKept(key) ==
    IF Given(key).k = "arr" THEN corsCfg[key] = StringsOf(Given(key).a)
    ELSE corsCfg[key] = corsPrior[key]

\* C14: load_from_value returns Ok on every value; a value that is not an
\* object leaves the section as it was; in an object each field is replaced
\* only by a key of its type (an array for a list, its strings being kept; a
\* bool; a non-negative integer), and a key that is absent, of another type
\* or unknown leaves the field at its prior value.
C14_LenientMerge ==
    corsLoaded # NotRun =>
        /\ corsLoaded = Ok("unit")
        /\ IF corsValue.k # "obj" THEN corsCfg = corsPrior
           ELSE /\ \A key \in {"allow_origins", "allow_methods", "allow_headers",
                                "expose_headers"} : ListKept(key)
                /\ corsCfg.allow_credentials =
                      IF Given("allow_credentials").k = "bool"
                      THEN Given("allow_credentials").b
                      ELSE corsPrior.allow_credentials
                /\ corsCfg.max_age =
                      IF Given("max_age").k = "num" /\ Given("max_age").n >= 0
                      THEN Given("max_age").n
                      ELSE corsPrior.max_age
                /\ DOMAIN corsCfg = CorsKeys

\* An object with an unknown key, a string where allow_origins wants an
\* array and a negative max_age, merged into a section that is not the
\* default: those two fields stayed and allow_methods was replaced.
C14_Witness ==
    /\ corsLoaded = Ok("unit") /\ corsPrior = CorsCustom /\ corsValue.k = "obj"
    /\ UnknownKey \in DOMAIN corsValue.o
    /\ Given("allow_origins").k = "str" /\ corsCfg.allow_origins = <<"https://a.example">>
    /\ Given("max_age").n < 0 /\ corsCfg.max_age = 0
    /\ corsCfg.allow_methods = <<"PATCH", "GET">>

(***************************************************************************)
(* Properties of build_cors_layer against validate.                        *)
(***************************************************************************)
Built == layerResult # NotRun

\* C17: build_cors_layer returns an error exactly when allow_credentials is
\* true and allow_methods contains "*"; so a section validate() accepts is
\* never refused by build_cors_layer.
C17_LayerAgreesWithValidate ==
    /\ Built => (IsErr(layerResult) <=> (corsCfg.allow_credentials /\ Wildcard))
    /\ (Built /\ corsResult = Ok("unit")) => IsOk(layerResult)

\* Credentials allowed with a wildcard origin and a wildcard header, named
\* methods: validate passed and build_cors_layer returned a layer.
C17_Witness ==
    /\ corsCfg.allow_credentials /\ ~ Wildcard
    /\ Contains(corsCfg.allow_origins, "*") /\ Contains(corsCfg.allow_headers, "*")
    /\ corsResult = Ok("unit") /\ IsOk(layerResult)
    /\ OkVal(layerResult).allow_origin = PolicyAny

(***************************************************************************)
(* Properties of AppError at the HTTP boundary.                            *)
(***************************************************************************)
Answered == herr # NoAppError

\* The transport status each kind of error is documented to get.
MappedStatus(e) ==
    IF e.kind \in {"Validation", "Serde", "FileHandle"} THEN 400
    ELSE IF e.kind \in {"Config", "Database", "Io", "Anyhow"} THEN 500
    ELSE e.status

\* C12: an AppError a handler returns becomes a response whose body is the
\* envelope with data = null and a non-zero code, and whose status is 400
\* for validation, serialization and file-upload errors, 500 for
\* configuration, database, I/O and general errors, and its own status for
\* Http { status }; the service keeps answering.
C12_ErrorResponse ==
    Answered =>
        /\ IsOk(hresp)
        /\ OkVal(hresp).body.data = None
        /\ OkVal(hresp).body.code # 0
        /\ OkVal(hresp).status = MappedStatus(herr)
        /\ serving /\ ENABLED ErrNext

\* A serialization error was answered with 400 and an envelope without data.
C12_Witness ==
    /\ herr.kind = "Serde" /\ IsOk(hresp)
    /\ OkVal(hresp).status = 400 /\ OkVal(hresp).body.data = None
    /\ OkVal(hresp).body.msg = "Invalid data format"

\* The documented range of business codes of each kind of error.
CodeRange(kind) ==
    CASE kind = "Database" -> 10100..10199
      [] kind = "Config" -> 10200..10299
      [] kind \in {"Io", "Serde"} -> 10300..10399
      [] kind = "Validation" -> 11000..11099
      [] kind = "FileHandle" -> 11100..11199

\* C13 as stated: the code of an error envelope is a business code from the
\* documented range of its kind of error, not the transport status.
C13_AsStated ==
    (Answered /\ herr.kind \in {"Database", "Config", "Io", "Serde", "Validation",
                                "FileHandle"}) =>
        /\ OkVal(hresp).body.code \in CodeRange(herr.kind)
        /\ OkVal(hresp).body.code # OkVal(hresp).status

====
